---------------------------- MODULE Spec2Model ----------------------------
(***************************************************************************)
(* Model of nas.py: the checkpointed, resumable provisioning sequence of   *)
(* the NAS builder.  One invocation of the script reads the stage ordinal  *)
(* from FLAG_FILE, runs the commands of that stage and writes the next     *)
(* ordinal.  The host (the checkpoint file, the configuration, the         *)
(* visibility of the devices) outlives the invocations.                    *)
(***************************************************************************)
EXTENDS Integers, Sequences, FiniteSets, TLC

(***************************************************************************)
(* Bounds of the model.                                                    *)
(***************************************************************************)
\* largest number of entries of RAID_DEVICES that Init draws
MaxDevices == 6
\* RAID_LEVEL is drawn from -1 .. MaxLevel
MaxLevel == 11
\* longest checkpoint record that InitAnyRecord draws
MaxLen == 3
\* appends to one file are counted up to this many
MaxAppends == 2

VARIABLES
    FLAG_FILE,       \* the record at /var/lib/mysetup_step (Absent, Unreadable, or its text)
    RAID_LEVEL,      \* the configured level
    num_devices,     \* len(RAID_DEVICES)
    devicesPresent,  \* os.path.exists holds of every entry of RAID_DEVICES
    rebootPending,   \* the reboot command succeeded and the host has not gone down yet
    devicesValidated, \* validate_devices has passed since the host last came up
    stagesDone,      \* the stages whose required commands have all succeeded in one
                     \* invocation, since an invocation last started from ordinal 1
    appended,        \* per configuration file: how many times append_to_file has added
                     \* its entry since set_step last opened the checkpoint
    nprocs,          \* how many invocations may be in flight at once
    pc,              \* per invocation: the place in __main__ / setup() (kept, like the
                     \* rest, after it ended and until the next one starts)
    idx,             \* per invocation: the instruction of the stage it is at
    observed,        \* per invocation: what get_step() returned at line 915
    step,            \* per invocation: the local `step` of setup()
    lastResult,      \* per invocation: what the latest run_safe returned
    answer,          \* per invocation: the raw text given to the latest input()
    log,             \* per invocation: what it has done so far, in order
    outcome,         \* per invocation: how it ended
    exitCode,        \* per invocation: the process's exit status (-1: none)
    prev             \* per invocation, from its first read of the checkpoint until
                     \* setup() starts: how the invocation before it went

hostVars ==
    <<FLAG_FILE, RAID_LEVEL, num_devices, devicesPresent, rebootPending, devicesValidated,
      stagesDone, appended, nprocs>>
procVars == <<pc, idx, observed, step, lastResult, answer, log, outcome, exitCode>>
vars == <<hostVars, procVars, prev>>

Procs == {1, 2}

(***************************************************************************)
(* Text.  A text is a sequence of one-character strings.                   *)
(***************************************************************************)
DigitChars == <<"0", "1", "2", "3", "4", "5", "6", "7", "8", "9">>

IsDigit(c) == \E i \in 1..10 : DigitChars[i] = c

DigitVal(c) == (CHOOSE i \in 1..10 : DigitChars[i] = c) - 1

IsSpace(c) == c \in {" ", "\n", "\t"}

\* str.strip(): leading and trailing whitespace removed
RECURSIVE LStrip(_)
LStrip(s) == IF s # <<>> /\ IsSpace(Head(s)) THEN LStrip(Tail(s)) ELSE s

RECURSIVE RStrip(_)
RStrip(s) ==
    IF s # <<>> /\ IsSpace(s[Len(s)]) THEN RStrip(SubSeq(s, 1, Len(s) - 1)) ELSE s

Strip(s) == RStrip(LStrip(s))

\* str(n) of a natural number
RECURSIVE StrNat(_)
StrNat(n) == IF n < 10 THEN <<DigitChars[n + 1]>>
             ELSE Append(StrNat(n \div 10), DigitChars[(n % 10) + 1])

\* str(step), line 167
Str(n) == IF n < 0 THEN <<"-">> \o StrNat(-n) ELSE StrNat(n)

\* the digits of int(): decimal digits, single underscores only between digits
RECURSIVE ParseDigits(_, _, _)
ParseDigits(s, acc, afterDigit) ==
    IF s = <<>> THEN [ok |-> afterDigit, val |-> acc]
    ELSE IF IsDigit(Head(s))
         THEN ParseDigits(Tail(s), acc * 10 + DigitVal(Head(s)), TRUE)
    ELSE IF Head(s) = "_" /\ afterDigit /\ Tail(s) # <<>> /\ IsDigit(Head(Tail(s)))
         THEN ParseDigits(Tail(s), acc, FALSE)
    ELSE [ok |-> FALSE, val |-> 0]

\* int(text.strip()), line 159: ok is FALSE where Python raises ValueError
ParseInt(text) ==
    LET s == Strip(text)
    IN  IF s = <<>> THEN [ok |-> FALSE, val |-> 0]
        ELSE IF Head(s) = "-"
             THEN LET r == ParseDigits(Tail(s), 0, FALSE)
                  IN  [ok |-> r.ok, val |-> 0 - r.val]
        ELSE IF Head(s) = "+" THEN ParseDigits(Tail(s), 0, FALSE)
        ELSE ParseDigits(s, 0, FALSE)

\* str.lower() on the letters the model uses
LowerChar(c) ==
    CASE c = "Y" -> "y"
      [] c = "E" -> "e"
      [] c = "S" -> "s"
      [] c = "N" -> "n"
      [] c = "O" -> "o"
      [] OTHER -> c

Lower(s) == [i \in 1..Len(s) |-> LowerChar(s[i])]

(***************************************************************************)
(* StepStore: get_step / set_step.                                         *)
(***************************************************************************)
\* the record at FLAG_FILE: no file, something that cannot be opened (a directory,
\* a failing disk), or a file with its text
Absent == [kind |-> "absent", text |-> <<>>]

Unreadable == [kind |-> "unreadable", text |-> <<>>]

File(t) == [kind |-> "file", text |-> t]

\* get_step falling back to 0 where int() raises
get_step_Default0(f) ==
    IF f.kind = "absent" THEN 1
    ELSE IF f.kind = "unreadable" THEN 1
    ELSE IF ParseInt(f.text).ok THEN ParseInt(f.text).val
    ELSE 0

\* get_step(): 1 when the file is absent, when open/read raises, when int() raises
get_step(f) ==
    IF f.kind = "absent" THEN 1
    ELSE IF f.kind = "unreadable" THEN 1
    ELSE IF ParseInt(f.text).ok THEN ParseInt(f.text).val
    ELSE 1

(***************************************************************************)
(* Validator.                                                              *)
(***************************************************************************)
ALLOWED_RAID_LEVELS == {0, 1, 5, 10}

\* validate_config without the test that RAID 10 has an even number of devices
validate_config_NoEvenTest(level, n) ==
    IF level \notin ALLOWED_RAID_LEVELS THEN FALSE
    ELSE IF level = 1 /\ n # 2 THEN FALSE
    ELSE IF level = 5 /\ n < 3 THEN FALSE
    ELSE IF level = 10 /\ n < 4 THEN FALSE
    ELSE IF level = 0 /\ n < 2 THEN FALSE
    ELSE TRUE

\* validate_config taking any RAID 1 of two devices or more
validate_config_Raid1AtLeast2(level, n) ==
    IF level \notin ALLOWED_RAID_LEVELS THEN FALSE
    ELSE IF level = 1 /\ n < 2 THEN FALSE
    ELSE IF level = 5 /\ n < 3 THEN FALSE
    ELSE IF level = 10 /\ (n < 4 \/ n % 2 # 0) THEN FALSE
    ELSE IF level = 0 /\ n < 2 THEN FALSE
    ELSE TRUE

\* validate_config(): TRUE where it returns, FALSE where it calls sys.exit(1)
validate_config(level, n) ==
    IF level \notin ALLOWED_RAID_LEVELS THEN FALSE
    ELSE IF level = 1 /\ n # 2 THEN FALSE
    ELSE IF level = 5 /\ n < 3 THEN FALSE
    ELSE IF level = 10 /\ (n < 4 \/ n % 2 # 0) THEN FALSE
    ELSE IF level = 0 /\ n < 2 THEN FALSE
    ELSE TRUE

\* validate_devices(): TRUE where missing_devices stays empty
validate_devices(present) == present

(***************************************************************************)
(* The stages of setup(), each the list of its calls in order.             *)
(***************************************************************************)
I(op, cmd, arg) == [op |-> op, cmd |-> cmd, arg |-> arg]

\* Stage1 writing ordinal 3 as its checkpoint
Stage1_Checkpoint3 ==
    <<I("run", "apt-get update", 0), I("run", "apt-get install vim", 0),
      I("append_if_exists", "config.txt", 0), I("set_step", "", 3), I("run", "reboot", 0)>>

\* step == 1, lines 388-409
Stage1 ==
    <<I("run", "apt-get update", 0), I("run", "apt-get install vim", 0),
      I("append_if_exists", "config.txt", 0), I("set_step", "", 2), I("run", "reboot", 0)>>

\* Stage2 installing the packages before it looks at the devices
Stage2_InstallFirst ==
    <<I("run", "apt-get install packages", 0), I("validate_devices", "", 0),
      I("set_step", "", 3)>>

\* step == 2, lines 411-422
Stage2 ==
    <<I("validate_devices", "", 0), I("run", "apt-get install packages", 0),
      I("set_step", "", 3)>>

\* Stage3 writing the checkpoint after each device instead of after the loop
Stage3_CheckpointPerDevice(n) ==
    <<I("confirm", "wipe", 0)>>
    \o [i \in 1..(2 * n) |->
           IF i % 2 = 1 THEN I("run", "wipefs", (i + 1) \div 2) ELSE I("set_step", "", 4)]

\* Stage3 writing the checkpoint before it wipes the devices
Stage3_CheckpointFirst(n) ==
    <<I("confirm", "wipe", 0), I("set_step", "", 4)>>
    \o [i \in 1..n |-> I("run", "wipefs", i)]

\* Stage3 writing ordinal 5 as its checkpoint
Stage3_Checkpoint5(n) ==
    <<I("confirm", "wipe", 0)>>
    \o [i \in 1..n |-> I("run", "wipefs", i)]
    \o <<I("set_step", "", 5)>>

\* step == 3, lines 424-432
Stage3(n) ==
    <<I("confirm", "wipe", 0)>>
    \o [i \in 1..n |-> I("run", "wipefs", i)]
    \o <<I("set_step", "", 4)>>

\* Stage4 writing its own ordinal back
Stage4_SameOrdinal ==
    <<I("confirm", "create", 0), I("run", "mdadm --create", 0), I("set_step", "", 4)>>

\* step == 4, lines 434-446
Stage4 ==
    <<I("confirm", "create", 0), I("run", "mdadm --create", 0), I("set_step", "", 5)>>

\* Stage5 ending without its checkpoint
Stage5_NoCheckpoint ==
    <<I("run", "mkfs", 0), I("run", "mkdir mount_point", 0), I("run", "mount", 0),
      I("run", "chown mount_point", 0), I("run", "mdadm --detail --scan", 0),
      I("append", "mdadm.conf", 0), I("run", "update-initramfs", 0),
      I("get_uuid", "blkid", 0), I("append", "fstab", 0)>>

\* step == 5, lines 448-478
Stage5 ==
    <<I("run", "mkfs", 0), I("run", "mkdir mount_point", 0), I("run", "mount", 0),
      I("run", "chown mount_point", 0), I("run", "mdadm --detail --scan", 0),
      I("append", "mdadm.conf", 0), I("run", "update-initramfs", 0),
      I("get_uuid", "blkid", 0), I("append", "fstab", 0), I("set_step", "", 6)>>

\* Stage6 with the checkpoint written before the share is enabled
Stage6_CheckpointEarly ==
    <<I("append", "smb.conf", 0), I("run", "systemctl restart smbd", 0),
      I("set_step", "", 7), I("run", "systemctl enable smbd", 0)>>

\* step == 6, lines 480-500
Stage6 ==
    <<I("append", "smb.conf", 0), I("run", "systemctl restart smbd", 0),
      I("run", "systemctl enable smbd", 0), I("set_step", "", 7)>>

\* setup_clamav(), lines 337-369
setup_clamav ==
    <<I("run_safe", "systemctl stop clamav-freshclam", 0),
      I("run_safe", "mkdir /var/log/clamav", 0), I("run_safe", "touch freshclam.log", 0),
      I("run_safe", "chown freshclam.log", 0), I("run_safe", "chmod freshclam.log", 0),
      I("run_safe", "pgrep freshclam", 0), I("run_safe_if", "pkill freshclam", 0),
      I("run_safe", "freshclam", 0), I("run_safe", "systemctl start clamav-freshclam", 0),
      I("run_safe", "systemctl enable clamav-freshclam", 0)>>

\* Stage7 writing ordinal 9 as its checkpoint
Stage7_Checkpoint9 ==
    <<I("run", "ufw allow ssh", 0), I("run", "ufw allow samba", 0),
      I("run", "ufw allow port", 0), I("run", "ufw enable", 0),
      I("append", "crontab", 0)>>
    \o setup_clamav
    \o <<I("set_step", "", 9)>>

\* step == 7, lines 502-517 (setup_cron_jobs is the crontab append)
Stage7 ==
    <<I("run", "ufw allow ssh", 0), I("run", "ufw allow samba", 0),
      I("run", "ufw allow port", 0), I("run", "ufw enable", 0),
      I("append", "crontab", 0)>>
    \o setup_clamav
    \o <<I("set_step", "", 8)>>

\* create_systemd_service() and the start of the service, lines 922-928
Completion ==
    <<I("run", "mkdir service_dir", 0), I("run", "cp script", 0),
      I("run", "chmod script", 0), I("run", "chown script", 0),
      I("run_safe", "touch log_file", 0), I("run_safe", "chmod log_file", 0),
      I("write_file", "nas-dashboard.service", 0),
      I("run", "systemctl daemon-reload", 0),
      I("run", "systemctl enable nas-dashboard", 0),
      I("run", "systemctl start nas-dashboard", 0)>>

\* the if/elif chain with its step == 7 branch taken from 7 on
StageProgram_From7(k, n) ==
    CASE k = 1 -> Stage1
      [] k = 2 -> Stage2
      [] k = 3 -> Stage3(n)
      [] k = 4 -> Stage4
      [] k = 5 -> Stage5
      [] k = 6 -> Stage6
      [] k >= 7 -> Stage7
      [] OTHER -> <<>>

\* the if/elif chain of setup(): the calls of the branch `step` selects (none for
\* step >= 8, which only prints, and none for step < 1)
StageProgram(k, n) ==
    CASE k = 1 -> Stage1
      [] k = 2 -> Stage2
      [] k = 3 -> Stage3(n)
      [] k = 4 -> Stage4
      [] k = 5 -> Stage5
      [] k = 6 -> Stage6
      [] k = 7 -> Stage7
      [] OTHER -> <<>>

(***************************************************************************)
(* CommandRunner, ConfirmationGate and the checkpoint write, as functions  *)
(* of what the outside world answers.                                      *)
(***************************************************************************)
\* what subprocess.run can do with a command
CommandResults == {"ok", "nonzero", "timeout", "spawn_error"}

\* run() handing a non-zero exit status back to its caller
run_ReturnsOnNonzero(res) ==
    CASE res \in {"ok", "nonzero"} -> [returns |-> TRUE, value |-> "rc0", why |-> "", code |-> -1]
      [] res = "timeout" -> [returns |-> FALSE, value |-> "None", why |-> "run_failed", code |-> 1]
      [] OTHER -> [returns |-> FALSE, value |-> "None", why |-> "exception", code |-> 1]

\* run(), lines 109-124: returns on exit status 0; sys.exit(1) on TimeoutExpired and
\* CalledProcessError; any other exception (the command does not exist) is not caught
run(res) ==
    CASE res = "ok" -> [returns |-> TRUE, value |-> "rc0", why |-> "", code |-> -1]
      [] res = "timeout" -> [returns |-> FALSE, value |-> "None", why |-> "run_failed", code |-> 1]
      [] res = "nonzero" -> [returns |-> FALSE, value |-> "None", why |-> "run_failed", code |-> 1]
      [] OTHER -> [returns |-> FALSE, value |-> "None", why |-> "exception", code |-> 1]

\* run_safe() with check=True: a non-zero exit status raises and None comes back
run_safe_NoneOnNonzero(res) ==
    CASE res = "ok" -> [returns |-> TRUE, value |-> "rc0", why |-> "", code |-> -1]
      [] OTHER -> [returns |-> TRUE, value |-> "None", why |-> "", code |-> -1]

\* run_safe(), lines 126-134: no check=True, so a non-zero exit status comes back as
\* the CompletedProcess; None on TimeoutExpired and on any other Exception
run_safe(res) ==
    CASE res = "ok" -> [returns |-> TRUE, value |-> "rc0", why |-> "", code |-> -1]
      [] res = "nonzero" -> [returns |-> TRUE, value |-> "rc_nonzero", why |-> "", code |-> -1]
      [] res = "timeout" -> [returns |-> TRUE, value |-> "None", why |-> "", code |-> -1]
      [] OTHER -> [returns |-> TRUE, value |-> "None", why |-> "", code |-> -1]

\* `result and result.returncode == 0`, lines 352 and 361
ResultOk(r) == r.value = "rc0"

\* what the operator can type at input()
Inputs ==
    {<<"y", "e", "s">>, <<"Y", "E", "S">>, <<"Y", "e", "s">>, <<"n", "o">>, <<"y">>,
     <<>>, <<"y", "e", "s", " ">>}

\* confirm_action taking any answer that starts with y
confirm_action_AnyY(input) == input # <<>> /\ Lower(input)[1] = "y"

\* confirm_action(), lines 139-140: TRUE where it returns, FALSE where it calls sys.exit(0)
confirm_action(input) == Lower(input) = <<"y", "e", "s">>

\* the files the stages append to
ConfigFiles == {"config.txt", "mdadm.conf", "fstab", "smb.conf", "crontab"}

NoAppends == [f \in ConfigFiles |-> 0]

\* append_to_file(), lines 147-148: open(path, "a") and write, whatever the file holds
append_to_file(count, path) ==
    [count EXCEPT ![path] = IF @ < MaxAppends THEN @ + 1 ELSE @]

\* set_step(), line 166: open(FLAG_FILE, "w") truncates the file, or raises
set_step_open(f, ok) == IF ok /\ f.kind # "unreadable" THEN File(<<>>) ELSE f

\* set_step(), line 167 and the close of the with block: the text reaches the file,
\* or the write raises and the file stays as open() left it
set_step_write(f, n, ok) == IF ok THEN File(Str(n)) ELSE f

(***************************************************************************)
(* One invocation of the script.                                           *)
(***************************************************************************)
Ev(op, cmd, arg, res) == [op |-> op, cmd |-> cmd, arg |-> arg, res |-> res]

NoResult == [call |-> "none", value |-> "None"]

NoPrev == [observed |-> 0, outcome |-> "none", exitCode |-> -1, log |-> <<>>]

Running(p) == pc[p] \notin {"idle", "exited"}

CurProgram(p) ==
    IF pc[p] = "completion" THEN Completion
    ELSE StageProgram(step[p], num_devices)

At(p, ops) ==
    /\ pc[p] \in {"stage", "completion"}
    /\ idx[p] \in 1..Len(CurProgram(p))
    /\ CurProgram(p)[idx[p]].op \in ops

Cur(p) == CurProgram(p)[idx[p]]

Logged(p, e) == log' = [log EXCEPT ![p] = Append(@, e)]

\* the process ends: sys.exit(code), the end of __main__, an uncaught exception, a kill
Finish(p, why, code) ==
    /\ pc' = [pc EXCEPT ![p] = "exited"]
    /\ idx' = [idx EXCEPT ![p] = 0]
    /\ outcome' = [outcome EXCEPT ![p] = why]
    /\ exitCode' = [exitCode EXCEPT ![p] = code]
    /\ prev' = [prev EXCEPT ![p] = NoPrev]

\* control passes to the next call of the stage; past the stage's last call setup()
\* returns to line 922; past the last completion call the script ends
Advance(p) ==
    IF idx[p] < Len(CurProgram(p))
    THEN /\ pc' = [pc EXCEPT ![p] = IF @ = "completion" THEN @ ELSE "stage"]
         /\ idx' = [idx EXCEPT ![p] = @ + 1]
         /\ UNCHANGED <<outcome, exitCode, prev>>
    ELSE IF pc[p] = "completion" THEN Finish(p, "completed", 0)
    ELSE /\ pc' = [pc EXCEPT ![p] = "main_reread"]
         /\ idx' = [idx EXCEPT ![p] = 0]
         /\ UNCHANGED <<outcome, exitCode, prev>>

HasRead(p) == \E i \in 1..Len(log[p]) : log[p][i].op = "get_step"

\* how the invocation that just ended went, for the one that starts
Summary(p) ==
    IF HasRead(p)
    THEN [observed |-> observed[p], outcome |-> outcome[p], exitCode |-> exitCode[p],
          log |-> log[p]]
    ELSE NoPrev

\* the test of line 915 taking ordinal 2 as well
is_first_step_UpTo2(v) == v <= 2

\* line 915: if get_step() == 1
is_first_step(v) == v = 1

\* with several invocations in flight the model follows one invocation of each, which
\* keeps their interleavings few
\* lines 899-915: the script starts; --dashboard-only goes to run_dashboard_only(),
\* check_root() ends the process with status 1 unless the caller is root, and then
\* comes the first read of the checkpoint: if get_step() == 1
Invoke(p) ==
    /\ p \in 1..nprocs
    /\ ~Running(p)
    /\ nprocs > 1 => pc[p] = "idle"
    /\ ~rebootPending
    /\ \E mode \in {"dashboard", "root", "not_root"} :
        LET v == get_step(FLAG_FILE)
        IN  /\ pc' = [pc EXCEPT ![p] = CASE mode = "dashboard" -> "dashboard"
                                         [] mode = "not_root" -> "exited"
                                         [] is_first_step(v) -> "validate_config"
                                         [] OTHER -> "setup"]
            /\ outcome' = [outcome EXCEPT ![p] = IF mode = "not_root" THEN mode ELSE "running"]
            /\ exitCode' = [exitCode EXCEPT ![p] = IF mode = "not_root" THEN 1 ELSE -1]
            /\ observed' = [observed EXCEPT ![p] = IF mode = "root" THEN v ELSE 0]
            /\ log' = [log EXCEPT ![p] =
                         IF mode = "root" THEN <<Ev("get_step", "main", v, "ok")>> ELSE <<>>]
            /\ prev' = [prev EXCEPT ![p] = IF mode = "root" THEN Summary(p) ELSE NoPrev]
            /\ stagesDone' = IF mode = "root" /\ v = 1 THEN {} ELSE stagesDone
    /\ idx' = [idx EXCEPT ![p] = 0]
    /\ step' = [step EXCEPT ![p] = 0]
    /\ lastResult' = [lastResult EXCEPT ![p] = NoResult]
    /\ answer' = [answer EXCEPT ![p] = <<>>]
    /\ UNCHANGED <<FLAG_FILE, RAID_LEVEL, num_devices, devicesPresent, rebootPending,
                   devicesValidated, appended, nprocs>>

\* the --dashboard-only branch without its sys.exit(0): control falls into the
\* normal path
Dashboard_FallsThrough(p) ==
    /\ pc[p] = "dashboard"
    /\ Logged(p, Ev("app.run", "", 0, "ok"))
    /\ pc' = [pc EXCEPT ![p] = "setup"]
    /\ UNCHANGED <<hostVars, idx, observed, step, lastResult, answer, outcome, exitCode, prev>>

\* run_dashboard_only() and sys.exit(0), lines 907-909
Dashboard(p) ==
    /\ pc[p] = "dashboard"
    /\ Logged(p, Ev("app.run", "", 0, "ok"))
    /\ Finish(p, "dashboard", 0)
    /\ UNCHANGED <<hostVars, observed, step, lastResult, answer>>

\* line 916: validate_config()
ValidateConfig(p) ==
    /\ pc[p] = "validate_config"
    /\ IF validate_config(RAID_LEVEL, num_devices)
       THEN /\ Logged(p, Ev("validate_config", "", 0, "ok"))
            /\ pc' = [pc EXCEPT ![p] = "setup"]
            /\ UNCHANGED <<idx, outcome, exitCode, prev>>
       ELSE /\ Logged(p, Ev("validate_config", "", 0, "fail"))
            /\ Finish(p, "config_error", 1)
    /\ UNCHANGED <<hostVars, observed, step, lastResult, answer>>

\* lines 383-388 and 519-520: setup() reads the ordinal and picks the branch
SetupGetStep(p) ==
    /\ pc[p] = "setup"
    /\ LET v == get_step(FLAG_FILE)
       IN  /\ step' = [step EXCEPT ![p] = v]
           /\ log' = [log EXCEPT ![p] =
                        Append(@, Ev("get_step", "setup", v, "ok"))
                        \o (IF v >= 8 THEN <<Ev("report_complete", "", 0, "ok")>> ELSE <<>>)]
           /\ pc' = [pc EXCEPT ![p] =
                       IF StageProgram(v, num_devices) # <<>> THEN "stage" ELSE "main_reread"]
           /\ idx' = [idx EXCEPT ![p] = IF StageProgram(v, num_devices) # <<>> THEN 1 ELSE 0]
           /\ prev' = [prev EXCEPT ![p] = NoPrev]
    /\ UNCHANGED <<hostVars, observed, lastResult, answer, outcome, exitCode>>

\* every command that stage k needs (its run() calls, the reboot that ends stage 1
\* aside) has returned in the invocation whose log is l
RanAllCommands(l, k) ==
    \A i \in 1..Len(StageProgram(k, num_devices)) :
        LET ins == StageProgram(k, num_devices)[i]
        IN  (ins.op = "run" /\ ins.cmd # "reboot")
                => \E j \in 1..Len(l) : l[j] = Ev("run", ins.cmd, ins.arg, "ok")

\* a call of run(cmd)
Run(p) ==
    /\ At(p, {"run"})
    /\ \E res \in CommandResults :
        /\ Logged(p, Ev("run", Cur(p).cmd, Cur(p).arg, res))
        /\ IF run(res).returns THEN Advance(p) ELSE Finish(p, run(res).why, run(res).code)
        /\ rebootPending' = (rebootPending \/ (Cur(p).cmd = "reboot" /\ res = "ok"))
        /\ stagesDone' =
               IF /\ pc[p] = "stage"
                  /\ RanAllCommands(Append(log[p], Ev("run", Cur(p).cmd, Cur(p).arg, res)),
                                    step[p])
               THEN stagesDone \cup {step[p]}
               ELSE stagesDone
    /\ UNCHANGED <<FLAG_FILE, RAID_LEVEL, num_devices, devicesPresent, devicesValidated,
                   appended, nprocs, observed, step, lastResult, answer>>

\* a call of run_safe(cmd); pkill is called only when pgrep found a process (line 352)
RunSafe(p) ==
    /\ At(p, {"run_safe", "run_safe_if"})
    /\ IF Cur(p).op = "run_safe_if" /\ ~ResultOk(lastResult[p])
       THEN /\ Advance(p)
            /\ UNCHANGED <<lastResult, log>>
       ELSE \E res \in CommandResults :
              /\ Logged(p, Ev("run_safe", Cur(p).cmd, Cur(p).arg, "any"))
              /\ lastResult' = [lastResult EXCEPT ![p] =
                                  [call |-> res, value |-> run_safe(res).value]]
              /\ IF run_safe(res).returns THEN Advance(p)
                 ELSE Finish(p, run_safe(res).why, run_safe(res).code)
    /\ UNCHANGED <<hostVars, observed, step, answer>>

\* append_to_file(), lines 145-151: an error is printed and swallowed
\* line 398: config.txt is appended to only if os.path.exists finds it
AppendToFile(p) ==
    /\ At(p, {"append", "append_if_exists"})
    /\ \/ \E res \in {"ok", "fail"} :
            /\ Logged(p, Ev("append", Cur(p).cmd, 0, res))
            /\ appended' = IF res = "ok" THEN append_to_file(appended, Cur(p).cmd)
                            ELSE appended
       \/ /\ Cur(p).op = "append_if_exists"
          /\ UNCHANGED <<log, appended>>
    /\ Advance(p)
    /\ UNCHANGED <<FLAG_FILE, RAID_LEVEL, num_devices, devicesPresent, rebootPending,
                   devicesValidated, stagesDone, nprocs, observed, step, lastResult, answer>>

\* lines 830-831: the unit file is written with no try around it
WriteFile(p) ==
    /\ At(p, {"write_file"})
    /\ \E res \in {"ok", "fail"} :
        /\ Logged(p, Ev("write_file", Cur(p).cmd, 0, res))
        /\ IF res = "ok" THEN Advance(p) ELSE Finish(p, "exception", 1)
    /\ UNCHANGED <<hostVars, observed, step, lastResult, answer>>

\* get_uuid(), lines 192-200: the UUID or None; either way an fstab entry follows
GetUuid(p) ==
    /\ At(p, {"get_uuid"})
    /\ \E res \in {"ok", "fail"} : Logged(p, Ev("get_uuid", Cur(p).cmd, 0, res))
    /\ Advance(p)
    /\ UNCHANGED <<hostVars, observed, step, lastResult, answer>>

\* confirm_action(prompt), lines 136-143; input() raises EOFError with no terminal
Confirm(p) ==
    /\ At(p, {"confirm"})
    /\ \/ \E input \in Inputs :
            /\ answer' = [answer EXCEPT ![p] = input]
            /\ IF confirm_action(input)
               THEN /\ Logged(p, Ev("confirm", Cur(p).cmd, 0, "ok"))
                    /\ Advance(p)
               ELSE /\ Logged(p, Ev("confirm", Cur(p).cmd, 0, "declined"))
                    /\ Finish(p, "declined", 0)
       \/ /\ Logged(p, Ev("confirm", Cur(p).cmd, 0, "eof"))
          /\ Finish(p, "exception", 1)
          /\ UNCHANGED answer
    /\ UNCHANGED <<hostVars, observed, step, lastResult>>

\* validate_devices(), lines 81-101
ValidateDevices(p) ==
    /\ At(p, {"validate_devices"})
    /\ IF validate_devices(devicesPresent)
       THEN /\ Logged(p, Ev("validate_devices", "", 0, "ok"))
            /\ Advance(p)
       ELSE /\ Logged(p, Ev("validate_devices", "", 0, "fail"))
            /\ Finish(p, "device_error", 1)
    /\ devicesValidated' = (devicesValidated \/ validate_devices(devicesPresent))
    /\ UNCHANGED <<FLAG_FILE, RAID_LEVEL, num_devices, devicesPresent, rebootPending,
                   stagesDone, appended, nprocs, observed, step, lastResult, answer>>

\* set_step(n), line 166: the open
SetStepOpen(p) ==
    /\ At(p, {"set_step"})
    /\ \E ok \in BOOLEAN :
        LET f == set_step_open(FLAG_FILE, ok)
        IN  /\ FLAG_FILE' = f
            /\ appended' = IF ok /\ FLAG_FILE.kind # "unreadable" THEN NoAppends ELSE appended
            /\ IF ok /\ FLAG_FILE.kind # "unreadable"
               THEN /\ Logged(p, Ev("open", "", Cur(p).arg, "ok"))
                    /\ pc' = [pc EXCEPT ![p] = "set_step_opened"]
                    /\ UNCHANGED <<idx, outcome, exitCode, prev>>
               ELSE /\ Logged(p, Ev("set_step", "", Cur(p).arg, "open_failed"))
                    /\ Advance(p)
    /\ UNCHANGED <<RAID_LEVEL, num_devices, devicesPresent, rebootPending,
                   devicesValidated, stagesDone, nprocs, observed, step, lastResult, answer>>

\* set_step(n), line 167: the write, and the except of lines 168-169
SetStepWrite(p) ==
    /\ pc[p] = "set_step_opened"
    /\ \E ok \in BOOLEAN :
        /\ FLAG_FILE' = set_step_write(FLAG_FILE, Cur(p).arg, ok)
        /\ Logged(p, Ev("set_step", "", Cur(p).arg, IF ok THEN "written" ELSE "write_failed"))
    /\ Advance(p)
    /\ UNCHANGED <<RAID_LEVEL, num_devices, devicesPresent, rebootPending,
                   devicesValidated, stagesDone, appended, nprocs, observed, step, lastResult,
                   answer>>

\* the completion test made one ordinal early
is_complete_From7(v) == v >= 7

\* line 922: the test of  if get_step() >= 8
is_complete(v) == v >= 8

\* lines 922-931: the record is read again after setup() and decides on the completion
MainReread(p) ==
    /\ pc[p] = "main_reread"
    /\ LET v == get_step(FLAG_FILE)
       IN  /\ Logged(p, Ev("get_step", "reread", v, "ok"))
           /\ IF is_complete(v)
              THEN /\ pc' = [pc EXCEPT ![p] = "completion"]
                   /\ idx' = [idx EXCEPT ![p] = 1]
                   /\ UNCHANGED <<outcome, exitCode, prev>>
              ELSE Finish(p, "completed", 0)
    /\ UNCHANGED <<hostVars, observed, step, lastResult, answer>>

\* the process is terminated from outside, wherever it is
Kill(p) ==
    /\ Running(p)
    /\ Finish(p, "killed", -1)
    /\ UNCHANGED <<hostVars, observed, step, lastResult, answer, log>>

\* the host goes down and comes back: every process is gone, the devices the kernel
\* shows may have changed
HostReboot ==
    /\ pc' = [p \in Procs |-> IF Running(p) THEN "exited" ELSE pc[p]]
    /\ idx' = [p \in Procs |-> IF Running(p) THEN 0 ELSE idx[p]]
    /\ outcome' = [p \in Procs |-> IF Running(p) THEN "killed" ELSE outcome[p]]
    /\ exitCode' = [p \in Procs |-> IF Running(p) THEN -1 ELSE exitCode[p]]
    /\ prev' = [p \in Procs |-> NoPrev]
    /\ devicesPresent' \in BOOLEAN
    /\ rebootPending' = FALSE
    /\ devicesValidated' = FALSE
    /\ UNCHANGED <<FLAG_FILE, RAID_LEVEL, num_devices, stagesDone, appended, nprocs,
                   observed, step, lastResult, answer, log>>

InitProcs ==
    /\ pc = [p \in Procs |-> "idle"]
    /\ idx = [p \in Procs |-> 0]
    /\ observed = [p \in Procs |-> 0]
    /\ step = [p \in Procs |-> 0]
    /\ lastResult = [p \in Procs |-> NoResult]
    /\ answer = [p \in Procs |-> <<>>]
    /\ log = [p \in Procs |-> <<>>]
    /\ outcome = [p \in Procs |-> "none"]
    /\ exitCode = [p \in Procs |-> -1]
    /\ prev = [p \in Procs |-> NoPrev]

\* a fresh install: no checkpoint yet, any configuration the operator may have written
Init ==
    /\ FLAG_FILE = Absent
    /\ RAID_LEVEL \in -1..MaxLevel
    /\ num_devices \in 0..MaxDevices
    /\ devicesPresent \in BOOLEAN
    /\ rebootPending = FALSE
    /\ devicesValidated = FALSE
    /\ stagesDone = {}
    /\ appended = NoAppends
    /\ nprocs = 1
    /\ InitProcs

\* the characters of the records InitAnyRecord draws
RecordChars == {"0", "8", "-", " ", "x", "_"}

Texts(n) == UNION {[1..k -> RecordChars] : k \in 0..n}

\* the configuration as the source has it (lines 16 and 23), and any record at
\* FLAG_FILE: left by an earlier run, edited by hand, damaged
InitAnyRecord ==
    /\ FLAG_FILE \in {Absent, Unreadable} \cup {File(t) : t \in Texts(MaxLen)}
    /\ RAID_LEVEL = 10
    /\ num_devices = 4
    /\ devicesPresent = TRUE
    /\ rebootPending = FALSE
    /\ devicesValidated = FALSE
    /\ stagesDone = {}
    /\ appended = NoAppends
    /\ nprocs = 1
    /\ InitProcs

\* the ordinals at which the overlapping invocations start: the stages up to the
\* creation of the array, and the terminal state
ConcurrentOrdinals == {1, 2, 3, 4, 8}

\* two invocations that may overlap, at any point of an install that went in order
\* so far, with the configuration as the source has it
InitConcurrent ==
    /\ \E k \in ConcurrentOrdinals :
        /\ FLAG_FILE = (IF k = 1 THEN Absent ELSE File(Str(k)))
        /\ stagesDone = 1..(k - 1)
        /\ devicesValidated = (k >= 3)
    /\ RAID_LEVEL = 10
    /\ num_devices = 4
    /\ devicesPresent = TRUE
    /\ rebootPending = FALSE
    /\ appended = NoAppends
    /\ nprocs = 2
    /\ InitProcs

Next ==
    \/ \E p \in Procs :
        \/ Invoke(p)
        \/ Dashboard(p)
        \/ ValidateConfig(p)
        \/ SetupGetStep(p)
        \/ Run(p)
        \/ RunSafe(p)
        \/ AppendToFile(p)
        \/ WriteFile(p)
        \/ GetUuid(p)
        \/ Confirm(p)
        \/ ValidateDevices(p)
        \/ SetStepOpen(p)
        \/ SetStepWrite(p)
        \/ MainReread(p)
        \/ Kill(p)
    \/ HostReboot

Spec == Init /\ [][Next]_vars

SpecAnyRecord == InitAnyRecord /\ [][Next]_vars

SpecConcurrent == InitConcurrent /\ [][Next]_vars

\* a fresh install with the configuration as the source has it and the devices in place
InitLive ==
    /\ FLAG_FILE = Absent
    /\ RAID_LEVEL = 10
    /\ num_devices = 4
    /\ devicesPresent = TRUE
    /\ rebootPending = FALSE
    /\ devicesValidated = FALSE
    /\ stagesDone = {}
    /\ appended = NoAppends
    /\ nprocs = 1
    /\ InitProcs

\* the operator starts the script as root for a normal run
InvokeRoot(p) == Invoke(p) /\ pc'[p] \in {"validate_config", "setup"}

\* the interpreter executes the next call of a running invocation
Proceed(p) ==
    \/ Dashboard(p)
    \/ ValidateConfig(p)
    \/ SetupGetStep(p)
    \/ Run(p)
    \/ RunSafe(p)
    \/ AppendToFile(p)
    \/ WriteFile(p)
    \/ GetUuid(p)
    \/ Confirm(p)
    \/ ValidateDevices(p)
    \/ SetStepOpen(p)
    \/ SetStepWrite(p)
    \/ MainReread(p)

\* the script is started again and again, a started invocation runs on (execution is
\* synchronous and single-threaded), and the host goes down once reboot was issued
Fairness ==
    /\ SF_vars(InvokeRoot(1))
    /\ WF_vars(Proceed(1))
    /\ WF_vars(rebootPending /\ HostReboot)

SpecLive == InitLive /\ [][Next]_vars /\ Fairness

(***************************************************************************)
(* Properties.                                                             *)
(***************************************************************************)
\* the invocation has made its first read and still holds the summary of the one before
AfterRead(p) == pc[p] \in {"validate_config", "setup"}

LastEv(l) == l[Len(l)]

Events(l) == {l[i] : i \in 1..Len(l)}

\* the invocation before p's ended in sys.exit(1) of run() on a command of a stage
PrevFailedInStage(p) ==
    /\ prev[p].outcome = "run_failed"
    /\ ~\E e \in Events(prev[p].log) : e.op = "get_step" /\ e.cmd = "reread"

\* C1 as stated: after an invocation in which a run() command of a stage failed, at
\* any position, the next invocation reads the ordinal the failed one had read
C1_Original ==
    \A p \in Procs :
        AfterRead(p) /\ PrevFailedInStage(p) => observed[p] = prev[p].observed

\* C1: after an invocation in which a run() command of a stage other than the reboot
\* that ends stage 1 failed, the next invocation reads the ordinal the failed one read
C1_NoAdvanceOnFailure ==
    \A p \in Procs :
        (AfterRead(p) /\ PrevFailedInStage(p) /\ LastEv(prev[p].log).cmd # "reboot")
            => observed[p] = prev[p].observed

C1_Witness ==
    \E p \in Procs :
        /\ AfterRead(p)
        /\ PrevFailedInStage(p)
        /\ LastEv(prev[p].log).cmd = "mount"
        /\ prev[p].observed = 5
        /\ observed[p] = 5

\* C2: the ordinal an invocation reads is never below the ordinal the invocation
\* before it read, whatever happened in between (kills, reboots, failed writes)
C2_NeverDecreases ==
    \A p \in Procs :
        (AfterRead(p) /\ prev[p].outcome # "none") => observed[p] >= prev[p].observed

\* the stage the invocation before p's ran: the ordinal its setup() read
PrevStage(p) ==
    IF \E e \in Events(prev[p].log) : e.op = "get_step" /\ e.cmd = "setup"
    THEN (CHOOSE e \in Events(prev[p].log) : e.op = "get_step" /\ e.cmd = "setup").arg
    ELSE 0

\* every run() command of the stage of the invocation before p's returned
PrevRanAllCommands(p) ==
    /\ PrevStage(p) \in 1..7
    /\ LET prog == StageProgram(PrevStage(p), num_devices)
       IN  \A i \in 1..Len(prog) :
               prog[i].op = "run"
                   => Ev("run", prog[i].cmd, prog[i].arg, "ok") \in Events(prev[p].log)

PrevCheckpointWritten(p) ==
    \E e \in Events(prev[p].log) : e.op = "set_step" /\ e.res = "written"

\* C3 as stated: after an invocation in which every command of stage k succeeded the
\* next invocation reads k + 1
C3_Original ==
    \A p \in Procs :
        (AfterRead(p) /\ PrevRanAllCommands(p)) => observed[p] = PrevStage(p) + 1

\* C3: after an invocation in which every command of stage k succeeded and set_step
\* wrote the checkpoint, the next invocation reads k + 1
C3_AdvanceByOne ==
    \A p \in Procs :
        (AfterRead(p) /\ PrevRanAllCommands(p) /\ PrevCheckpointWritten(p))
            => observed[p] = PrevStage(p) + 1

C3_Witness ==
    \E p \in Procs :
        /\ AfterRead(p)
        /\ PrevRanAllCommands(p)
        /\ PrevCheckpointWritten(p)
        /\ PrevStage(p) = 3
        /\ observed[p] = 4

\* what changes the host: commands, file writes, checkpoint writes
MutatingOps == {"run", "run_safe", "append", "write_file", "open", "set_step"}

\* C4 as stated: an invocation that starts with ordinal >= 8 runs no command and
\* writes no file
C4_Original ==
    \A p \in Procs :
        (HasRead(p) /\ observed[p] >= 8) => \A e \in Events(log[p]) : e.op \notin MutatingOps

\* C4: an invocation that starts with ordinal >= 8 runs no validator, no confirmation
\* and no command of a stage, writes no checkpoint and leaves the ordinal as it read
\* it; what it runs are the completion calls (the install and start of the service)
C4_TerminalFixedPoint ==
    \A p \in Procs :
        (HasRead(p) /\ observed[p] >= 8) =>
            /\ get_step(FLAG_FILE) = observed[p]
            /\ \A e \in Events(log[p]) :
                   \/ e.op \in {"get_step", "report_complete"}
                   \/ \E i \in 1..Len(Completion) :
                          Completion[i].op = e.op /\ Completion[i].cmd = e.cmd
            /\ (Ev("get_step", "setup", observed[p], "ok") \in Events(log[p])
                    => Ev("report_complete", "", 0, "ok") \in Events(log[p]))

C4_Witness ==
    \E p \in Procs :
        /\ observed[p] = 8
        /\ pc[p] = "exited"
        /\ outcome[p] = "completed"
        /\ Ev("write_file", "nas-dashboard.service", 0, "ok") \in Events(log[p])
        /\ Ev("run", "systemctl start nas-dashboard", 0, "ok") \in Events(log[p])

\* the commands that destroy what is on the devices or the array
DestructiveCmds == {"wipefs", "mdadm --create", "mkfs"}

\* C5: no wipe, array creation or filesystem creation is issued unless the operator
\* gave the affirmative answer to confirm_action earlier in the same invocation
C5_DestructiveGated ==
    \A p \in Procs :
        \A i \in 1..Len(log[p]) :
            (log[p][i].op = "run" /\ log[p][i].cmd \in DestructiveCmds)
                => \E j \in 1..(i - 1) : log[p][j].op = "confirm" /\ log[p][j].res = "ok"

\* the answers that read "yes" in any mix of upper and lower case
AffirmativeInputs ==
    {<<a, b, c>> : a \in {"y", "Y"}, b \in {"e", "E"}, c \in {"s", "S"}}

\* the invocation got an answer at its confirm_action (answer[p] holds it)
Answered(p, i) == log[p][i].op = "confirm" /\ log[p][i].res \in {"ok", "declined"}

\* what follows a declined confirmation: exit status 0, nothing of the stage done,
\* the ordinal as it was read
DeclinedCleanly(p, i) ==
    /\ log[p][i].res = "declined"
    /\ i = Len(log[p])
    /\ pc[p] = "exited"
    /\ outcome[p] = "declined"
    /\ exitCode[p] = 0
    /\ \A e \in Events(log[p]) : e.op \notin MutatingOps
    /\ get_step(FLAG_FILE) = observed[p]

\* what follows an accepted confirmation: control is at the first command of the stage
Proceeds(p, i) ==
    /\ log[p][i].res = "ok"
    /\ outcome[p] # "declined"
    /\ (i = Len(log[p]) /\ Running(p)) => (pc[p] = "stage" /\ Cur(p).op = "run")

\* C6 as stated: every answer other than the exact token yes ends the process with
\* status 0, no command run and the ordinal unchanged; the token yes proceeds
C6_Original ==
    \A p \in Procs :
        \A i \in 1..Len(log[p]) :
            Answered(p, i) =>
                IF answer[p] = <<"y", "e", "s">> THEN Proceeds(p, i) ELSE DeclinedCleanly(p, i)

\* C6: every answer that is not yes in some mix of upper and lower case ends the
\* process with status 0, no command run and the ordinal unchanged; yes in any case
\* proceeds into the commands of the stage
C6_ConfirmGate ==
    \A p \in Procs :
        \A i \in 1..Len(log[p]) :
            Answered(p, i) =>
                IF answer[p] \in AffirmativeInputs THEN Proceeds(p, i) ELSE DeclinedCleanly(p, i)

C6_Witness ==
    \E p \in Procs :
        /\ observed[p] = 3
        /\ answer[p] = <<"y", "e", "s", " ">>
        /\ Answered(p, Len(log[p]))
        /\ pc[p] = "exited"
        /\ exitCode[p] = 0

\* the latest thing the invocation did was a read of the checkpoint
JustRead(p) == log[p] # <<>> /\ LastEv(log[p]).op = "get_step"

RECURSIVE Pow10(_)
Pow10(n) == IF n = 0 THEN 1 ELSE 10 * Pow10(n - 1)

RECURSIVE SumOver(_, _, _)
SumOver(S, t, last) ==
    IF S = {} THEN 0
    ELSE LET i == CHOOSE j \in S : TRUE
         IN  DigitVal(t[i]) * Pow10(Cardinality({j \in (i + 1)..last : IsDigit(t[j])}))
                 + SumOver(S \ {i}, t, last)

\* the text of an integer: blanks, an optional sign, digits with single underscores
\* between them, blanks
NonBlank(t) == {i \in 1..Len(t) : ~IsSpace(t[i])}

FirstNonBlank(t) == CHOOSE i \in NonBlank(t) : \A j \in NonBlank(t) : i <= j

LastAt(t) == CHOOSE i \in NonBlank(t) : \A j \in NonBlank(t) : j <= i

FirstDigitAt(t) ==
    IF t[FirstNonBlank(t)] \in {"-", "+"} THEN FirstNonBlank(t) + 1 ELSE FirstNonBlank(t)

IsIntegerText(t) ==
    /\ NonBlank(t) # {}
    /\ FirstDigitAt(t) <= LastAt(t)
    /\ \A i \in FirstDigitAt(t)..LastAt(t) :
           \/ IsDigit(t[i])
           \/ /\ t[i] = "_"
              /\ FirstDigitAt(t) < i /\ i < LastAt(t)
              /\ IsDigit(t[i - 1]) /\ IsDigit(t[i + 1])

IntegerOf(t) ==
    LET mag == SumOver({i \in FirstDigitAt(t)..LastAt(t) : IsDigit(t[i])}, t, LastAt(t))
    IN  IF t[FirstNonBlank(t)] = "-" THEN 0 - mag ELSE mag

\* C7: get_step returns 1 when the record is absent, unreadable or no integer, and
\* the stored integer otherwise; the invocation goes on in every case
C7_GetStepFailOpen ==
    \A p \in Procs :
        JustRead(p) =>
            /\ LastEv(log[p]).arg =
                   IF FLAG_FILE.kind = "file" /\ IsIntegerText(FLAG_FILE.text)
                   THEN IntegerOf(FLAG_FILE.text) ELSE 1
            /\ outcome[p] # "exception"

C7_Witness ==
    \E p \in Procs :
        /\ JustRead(p)
        /\ FLAG_FILE = File(<<"8", "x">>)
        /\ observed[p] = 1
        /\ pc[p] = "validate_config"

\* the device-count rule of each level
CardinalityRule(L, C) ==
    \/ L = 1 /\ C = 2
    \/ L = 5 /\ C >= 3
    \/ L = 10 /\ C >= 4 /\ C % 2 = 0
    \/ L = 0 /\ C >= 2

\* C8: validate_config accepts exactly the configurations whose level is one of
\* 0, 1, 5, 10 and whose device count satisfies the level's rule, and ends the
\* process with status 1 on every other
C8_ValidateConfig ==
    \A p \in Procs :
        \A e \in Events(log[p]) :
            e.op = "validate_config" =>
                IF CardinalityRule(RAID_LEVEL, num_devices)
                THEN e.res = "ok" /\ outcome[p] # "config_error"
                ELSE /\ e.res = "fail"
                     /\ pc[p] = "exited"
                     /\ outcome[p] = "config_error"
                     /\ exitCode[p] = 1

C8_Witness ==
    \E p \in Procs :
        /\ RAID_LEVEL = 10
        /\ num_devices = 5
        /\ Ev("validate_config", "", 0, "fail") \in Events(log[p])
        /\ pc[p] = "exited"
        /\ exitCode[p] = 1

\* C9: once a command executed through run() has exited non-zero, the process has
\* ended with exit code 1 and that command is the last thing the invocation did: no
\* later command and no set_step follows it
C9_RunNonzeroExits ==
    \A p \in Procs :
        \A i \in 1..Len(log[p]) :
            (log[p][i].op = "run" /\ log[p][i].res = "nonzero") =>
                /\ i = Len(log[p])
                /\ pc[p] = "exited"
                /\ exitCode[p] = 1
                /\ outcome[p] = "run_failed"

C9_Witness ==
    \E p \in Procs :
        /\ step[p] = 4
        /\ LastEv(log[p]) = Ev("run", "mdadm --create", 0, "nonzero")
        /\ pc[p] = "exited"
        /\ exitCode[p] = 1
        /\ get_step(FLAG_FILE) = 4

\* the process was not ended by its last call of run_safe
NotEndedByRunSafe(p) ==
    (pc[p] = "exited" /\ log[p] # <<>> /\ LastEv(log[p]).op = "run_safe") =>
        outcome[p] = "killed"

\* C10 as stated: run_safe never ends the process, and on every failure of the
\* command (non-zero exit, timeout, spawn failure) it returns the absent result
C10_Original ==
    \A p \in Procs :
        /\ NotEndedByRunSafe(p)
        /\ lastResult[p].call \in {"nonzero", "timeout", "spawn_error"} =>
               lastResult[p].value = "None"

\* C10: run_safe never ends the process; it returns the absent result on a timeout
\* and on a spawn failure, and the completed process with its non-zero return code
\* when the command exits non-zero
C10_RunSafeNeverAborts ==
    \A p \in Procs :
        /\ NotEndedByRunSafe(p)
        /\ lastResult[p].call \in {"timeout", "spawn_error"} => lastResult[p].value = "None"
        /\ lastResult[p].call = "nonzero" => lastResult[p].value = "rc_nonzero"
        /\ lastResult[p].call = "ok" => lastResult[p].value = "rc0"

C10_Witness ==
    \E p \in Procs :
        /\ step[p] = 7
        /\ LastEv(log[p]) = Ev("run_safe", "pgrep freshclam", 0, "any")
        /\ lastResult[p] = [call |-> "nonzero", value |-> "rc_nonzero"]
        /\ pc[p] = "stage"

\* what only looks at the host: reads of the checkpoint and the two validators
InspectingOps == {"get_step", "validate_config", "validate_devices"}

\* C11: an invocation in which validate_config or validate_devices failed has ended
\* with exit code 1, has run no command and written no file, and has left the
\* persisted ordinal as it read it
C11_ValidationFailureClean ==
    \A p \in Procs :
        (\E e \in Events(log[p]) :
             e.op \in {"validate_config", "validate_devices"} /\ e.res = "fail") =>
            /\ pc[p] = "exited"
            /\ exitCode[p] = 1
            /\ outcome[p] \in {"config_error", "device_error"}
            /\ \A e \in Events(log[p]) : e.op \in InspectingOps
            /\ get_step(FLAG_FILE) = observed[p]

C11_Witness ==
    \E p \in Procs :
        /\ observed[p] = 2
        /\ LastEv(log[p]) = Ev("validate_devices", "", 0, "fail")
        /\ outcome[p] = "device_error"
        /\ exitCode[p] = 1
        /\ FLAG_FILE = File(<<"2">>)

\* the results that mean a call did what it was asked to
GoodResults == {"ok", "written", "any"}

\* the invocation whose log is l ran to the end of __main__ with every call succeeding
RanClean(l, why) ==
    /\ why = "completed"
    /\ \A e \in Events(l) : e.res \in GoodResults

\* the log without the optional append to config.txt
WithoutConfigTxt(l) == SelectSeq(l, LAMBDA e : e.cmd # "config.txt")

\* what the first invocation of the scenario does, in order
FirstInvocationLog ==
    <<Ev("get_step", "main", 1, "ok"), Ev("validate_config", "", 0, "ok"),
      Ev("get_step", "setup", 1, "ok"), Ev("run", "apt-get update", 0, "ok"),
      Ev("run", "apt-get install vim", 0, "ok"), Ev("open", "", 2, "ok"),
      Ev("set_step", "", 2, "written"), Ev("run", "reboot", 0, "ok"),
      Ev("get_step", "reread", 2, "ok")>>

\* what the second invocation of the scenario does, in order
SecondInvocationLog ==
    <<Ev("get_step", "main", 2, "ok"), Ev("get_step", "setup", 2, "ok"),
      Ev("validate_devices", "", 0, "ok"), Ev("run", "apt-get install packages", 0, "ok"),
      Ev("open", "", 3, "ok"), Ev("set_step", "", 3, "written"),
      Ev("get_step", "reread", 3, "ok")>>

\* C12: with every call succeeding, the invocation that reads ordinal 1 validates the
\* configuration, runs stage 1, writes checkpoint 2 and issues the reboot, and runs
\* nothing of stage 2; the invocation after it reads 2; the invocation that reads 2
\* runs validate_devices before anything else of stage 2, then writes checkpoint 3
\* and issues no reboot
C12_Scenario ==
    \A p \in Procs :
        /\ (pc[p] = "exited" /\ observed[p] = 1 /\ RanClean(log[p], outcome[p])) =>
               WithoutConfigTxt(log[p]) = FirstInvocationLog
        /\ (AfterRead(p) /\ prev[p].observed = 1 /\ RanClean(prev[p].log, prev[p].outcome)) =>
               observed[p] = 2
        /\ (pc[p] = "exited" /\ observed[p] = 2 /\ RanClean(log[p], outcome[p])) =>
               /\ log[p] = SecondInvocationLog
               /\ FLAG_FILE = File(<<"3">>)
               /\ ~rebootPending

C12_Witness ==
    \E p \in Procs :
        /\ pc[p] = "exited"
        /\ observed[p] = 2
        /\ RanClean(log[p], outcome[p])
        /\ FLAG_FILE = File(<<"3">>)

\* the positions of the log that lie in setup(): after its read of the checkpoint and
\* before the re-read of line 922
InSetup(l) ==
    {i \in 1..Len(l) :
        /\ \E j \in 1..(i - 1) : l[j].op = "get_step" /\ l[j].cmd = "setup"
        /\ ~\E j \in 1..i : l[j].op = "get_step" /\ l[j].cmd = "reread"}

\* the event is what the instruction does
EventOf(e, ins) ==
    CASE e.op \in {"open", "set_step"} -> ins.op = "set_step" /\ ins.arg = e.arg
      [] e.op = "append" -> ins.op \in {"append", "append_if_exists"} /\ ins.cmd = e.cmd
      [] e.op = "run_safe" -> ins.op \in {"run_safe", "run_safe_if"} /\ ins.cmd = e.cmd
      [] e.op = "report_complete" -> FALSE
      [] OTHER -> ins.op = e.op /\ ins.cmd = e.cmd /\ ins.arg = e.arg

\* everything the invocation did in setup() belongs to the stage of the ordinal it read
OnlyStageRead(p) ==
    \A i \in InSetup(log[p]) :
        \/ log[p][i].op = "report_complete"
        \/ \E k \in 1..Len(StageProgram(observed[p], num_devices)) :
               EventOf(log[p][i], StageProgram(observed[p], num_devices)[k])

\* C13: an invocation runs the calls of the stage whose ordinal it read and of no
\* other, and once it has ended the persisted ordinal, k when it was read, is k or
\* k + 1
C13_OneStageOneStep ==
    \A p \in Procs :
        HasRead(p) =>
            /\ OnlyStageRead(p)
            /\ pc[p] = "exited" => get_step(FLAG_FILE) \in {observed[p], observed[p] + 1}

\* C14: whenever the persisted ordinal is 4 or more, the configured device count
\* satisfies the cardinality rule of the configured level
C14_ValidBeforeCreate ==
    get_step(FLAG_FILE) >= 4 => CardinalityRule(RAID_LEVEL, num_devices)

C14_Witness ==
    /\ get_step(FLAG_FILE) = 4
    /\ RAID_LEVEL = 5
    /\ num_devices = 3
    /\ \E p \in Procs : pc[p] = "stage" /\ step[p] = 4 /\ Cur(p).cmd = "mdadm --create"

\* C15: no wipe and no array creation is issued unless validate_devices has passed
\* since the host last came up, that is, after the reboot of stage 1 and after every
\* later reboot of the host
C15_ValidatedBeforeDestructive ==
    \A p \in Procs :
        (Running(p) /\ log[p] # <<>> /\ LastEv(log[p]).op = "run"
            /\ LastEv(log[p]).cmd \in {"wipefs", "mdadm --create"})
            => devicesValidated

\* the positions of the log at which validate_config ran
ConfigChecks(l) == {i \in 1..Len(l) : l[i].op = "validate_config"}

\* C16 as stated: validate_config runs once over the whole sequence of invocations, so
\* an invocation that follows one in which it ran does not run it again
C16_Original ==
    \A p \in Procs :
        (AfterRead(p) /\ ConfigChecks(prev[p].log) # {}) => pc[p] # "validate_config"

\* C16: validate_config runs in the invocations whose first read of the checkpoint
\* returned 1 and in no other, at most once in an invocation, right after that read
\* and before setup() and every command of stage 1
C16_ValidateAtOrdinalOne ==
    \A p \in Procs :
        HasRead(p) =>
            /\ ConfigChecks(log[p]) \subseteq {2}
            /\ ConfigChecks(log[p]) # {} => observed[p] = 1
            /\ (observed[p] = 1 /\ Len(log[p]) >= 2) => ConfigChecks(log[p]) = {2}
            /\ pc[p] = "validate_config" <=> (observed[p] = 1 /\ Len(log[p]) = 1 /\ Running(p))

C16_Witness ==
    \E p \in Procs :
        /\ pc[p] = "setup"
        /\ prev[p].outcome = "run_failed"
        /\ ConfigChecks(prev[p].log) = {2}
        /\ ConfigChecks(log[p]) = {2}
        /\ observed[p] = 1

\* the positions of the log at which the checkpoint was read
Reads(l) == {i \in 1..Len(l) : l[i].op = "get_step"}

\* the positions of the log at which set_step was entered (its open, done or refused)
Writes(l) ==
    {i \in 1..Len(l) : l[i].op = "open" \/ (l[i].op = "set_step" /\ l[i].res = "open_failed")}

\* C17 as stated: an invocation reads the record exactly once and writes it at most
\* once
C17_Original ==
    \A p \in Procs :
        HasRead(p) =>
            /\ Cardinality(Reads(log[p])) = 1
            /\ Cardinality(Writes(log[p])) <= 1

\* C17: an invocation reads the record up to three times, for the test before
\* validate_config, at the start of setup() and for the test before the completion
\* calls, in that order; the first two reads return the same ordinal; it calls
\* set_step at most once, between the second and third read; an invocation that runs
\* to the end has made all three reads
C17_ReadsAndWrites ==
    \A p \in Procs :
        HasRead(p) =>
            /\ Cardinality(Reads(log[p])) <= 3
            /\ \A i, j \in Reads(log[p]) :
                   i < j => /\ log[p][i].cmd \in {"main", "setup"}
                            /\ log[p][j].cmd \in {"setup", "reread"}
                            /\ log[p][i].cmd # log[p][j].cmd
            /\ \A i \in Reads(log[p]) : log[p][i].cmd = "setup" => log[p][i].arg = observed[p]
            /\ Cardinality(Writes(log[p])) <= 1
            /\ \A w \in Writes(log[p]) :
                   /\ \E i \in Reads(log[p]) : i < w /\ log[p][i].cmd = "setup"
                   /\ \A i \in Reads(log[p]) : i > w => log[p][i].cmd = "reread"
            /\ outcome[p] = "completed" => Cardinality(Reads(log[p])) = 3

C17_Witness ==
    \E p \in Procs :
        /\ outcome[p] = "completed"
        /\ Ev("get_step", "main", 7, "ok") \in Events(log[p])
        /\ Ev("get_step", "setup", 7, "ok") \in Events(log[p])
        /\ Ev("get_step", "reread", 8, "ok") \in Events(log[p])
        /\ Cardinality(Writes(log[p])) = 1
        /\ Ev("run", "systemctl start nas-dashboard", 0, "ok") \in Events(log[p])

\* C18: a --dashboard-only invocation has read nothing of the checkpoint when it
\* starts the dashboard, and its step to the end leaves the record as it is, runs no
\* validator, no confirmation and no command of a stage, and ends the process
C18_DashboardBypasses ==
    [][\A p \in Procs :
           pc[p] = "dashboard" =>
               /\ log[p] = <<>>
               /\ observed[p] = 0
               /\ FLAG_FILE' = FLAG_FILE
               /\ pc'[p] = "exited"
               /\ \A e \in Events(log'[p]) : e.op = "app.run"]_vars

C18_Witness ==
    \E p \in Procs :
        /\ outcome[p] = "dashboard"
        /\ exitCode[p] = 0
        /\ log[p] = <<Ev("app.run", "", 0, "ok")>>
        /\ FLAG_FILE = File(<<"3">>)

\* C19: whenever set_step is called, every command and every configuration-file
\* append of the stage that came before it in the invocation has succeeded
C19_CheckpointAfterFullSuccess ==
    \A p \in Procs :
        \A w \in Writes(log[p]) :
            \A i \in 1..(w - 1) : ~(log[p][i].op = "append" /\ log[p][i].res = "fail")

\* C20: re-running a stage after a failed attempt leaves what a single successful run
\* leaves; in particular no configuration file has had its entry appended more than
\* once since the checkpoint was last written
C20_RerunSafe ==
    \A f \in ConfigFiles : appended[f] <= 1

\* C21: from a fresh install the persisted ordinal is one of 1..8 in every reachable
\* state, whatever fails, is declined or is killed on the way
C21_OrdinalInRange == get_step(FLAG_FILE) \in 1..8

C21_Witness ==
    /\ FLAG_FILE = File(<<"8">>)
    /\ \E p \in Procs :
           /\ observed[p] = 7
           /\ Ev("set_step", "", 8, "written") \in Events(log[p])

\* the positions of the log at which the invocation did something of its stage
StageEvents(l) == {i \in InSetup(l) : l[i].op # "report_complete"}

CompletedStage(p, k) ==
    /\ pc[p] = "exited"
    /\ observed[p] = k
    /\ step[p] = k
    /\ RanAllCommands(log[p], k)
    /\ \E e \in Events(log[p]) : e.op = "set_step" /\ e.res = "written"

\* C23: when two invocations have both read ordinal k, both run stage k to its end
\* and both written the checkpoint, the persisted ordinal is k + 1: the second
\* completed run of the stage is not reflected in it
C23_RaceOnCheckpoint ==
    \A k \in 1..7 :
        (CompletedStage(1, k) /\ CompletedStage(2, k)) => get_step(FLAG_FILE) = k + 1

C23_Witness ==
    /\ CompletedStage(1, 3)
    /\ CompletedStage(2, 3)
    /\ \A p \in Procs : Ev("run", "wipefs", 1, "ok") \in Events(log[p])
    /\ FLAG_FILE = File(<<"4">>)

\* nothing has gone wrong in the latest invocation: no command failed, no validator
\* refused, the operator did not decline, the process was not killed, and no
\* checkpoint write failed
Healthy ==
    \A p \in Procs :
        /\ outcome[p] \in {"none", "running", "completed", "dashboard", "not_root"}
        /\ \A e \in Events(log[p]) : e.res \notin {"open_failed", "write_failed"}

\* C24: if the script keeps being invoked and from some time on nothing goes wrong,
\* the persisted ordinal reaches 8 and stays there
C24_EventuallyComplete == <>[]Healthy => <>[](get_step(FLAG_FILE) = 8)

C24_Witness ==
    /\ FLAG_FILE = File(<<"8">>)
    /\ Healthy
    /\ \E p \in Procs : observed[p] = 8 /\ outcome[p] = "completed"

\* C25: a normal invocation that runs to its end has either done something of a
\* stage or reported completion, whatever integer the record holds
C25_EveryOrdinalActs ==
    \A p \in Procs :
        (pc[p] = "exited" /\ outcome[p] = "completed")
            => \/ StageEvents(log[p]) # {}
               \/ \E e \in Events(log[p]) : e.op = "report_complete"

\* the positions of the log that come after the record was read again: what the
\* invocation did of create_systemd_service and the start of the service
CompletionEvents(l) ==
    {i \in 1..Len(l) : \E j \in 1..(i - 1) : l[j].op = "get_step" /\ l[j].cmd = "reread"}

\* C26: the completion actions run only after the record, read again after setup(),
\* gave an ordinal of 8 or more; while they run and after them no stage is pending;
\* and an invocation whose write of checkpoint 8 failed runs none of them
C26_CompletionOnlyAtEight ==
    \A p \in Procs :
        /\ (pc[p] = "completion" \/ CompletionEvents(log[p]) # {})
            => /\ \E e \in Events(log[p]) :
                    e.op = "get_step" /\ e.cmd = "reread" /\ e.arg >= 8
               /\ get_step(FLAG_FILE) >= 8
        /\ (\E e \in Events(log[p]) :
                e.op = "set_step" /\ e.arg = 8 /\ e.res \in {"open_failed", "write_failed"})
            => pc[p] # "completion" /\ CompletionEvents(log[p]) = {}

C26_Witness ==
    \E p \in Procs :
        /\ pc[p] = "exited" /\ outcome[p] = "completed" /\ step[p] = 7
        /\ Ev("set_step", "", 8, "written") \in Events(log[p])
        /\ Ev("get_step", "reread", 8, "ok") \in Events(log[p])
        /\ Ev("run", "systemctl start nas-dashboard", 0, "ok") \in Events(log[p])

=============================================================================
